---- MODULE Spec2Model ----
(***************************************************************************)
(* Model of mcqsnap (src/main.py): the ScreenshotWindow selection state    *)
(* machine with process_screenshot, and ConfigManager's credential        *)
(* handling (load_api_key / save_api_key / initialize_api_key).            *)
(*                                                                         *)
(* Two specifications:                                                     *)
(*   Spec        the ScreenshotWindow event handlers, run by the Qt event  *)
(*               loop after main() has built the window (main.py:230-233). *)
(*   SpecConfig  ConfigManager.initialize_api_key as called by main()      *)
(*               (main.py:228), for every environment / file / dialog      *)
(*               input within the bounds.                                  *)
(*                                                                         *)
(* Library semantics the handlers depend on (PySide6 / Qt 6):              *)
(*   - bool(QPoint) is "not isNull()": QPoint(0,0) is falsy;               *)
(*   - QRect(p1, p2) has inclusive corners: width = x2 - x1 + 1;           *)
(*   - QRect.normalized() swaps corners when x2 < x1 (y2 < y1), turning    *)
(*     them inclusive;                                                     *)
(*   - QPixmap.copy(r) copies the whole pixmap when r is empty;            *)
(*   - QApplication keeps a stack of override cursors; restoring on an     *)
(*     empty stack does nothing;                                           *)
(*   - a hidden (closed) widget receives no input events, and a blocking   *)
(*     call or modal dialog run from a handler delivers no events to the   *)
(*     window until the handler returns.                                   *)
(***************************************************************************)
EXTENDS Integers, Sequences, FiniteSets, TLC

VARIABLES
    \* ---- ScreenshotWindow (main.py:138-221) ----
    visible,            \* the window is shown (showFullScreen .. close)
    selection_started,  \* self.selection_started
    start_pos,          \* self.start_pos
    end_pos,            \* self.end_pos
    selection_rect,     \* last selection_rect computed (paintEvent / process_screenshot)
    image,              \* region of the pixmap sent to analyze_mcq (cropped_pixmap)
    response_window,    \* self.response_window: "none" or "shown"
    e,                  \* exception caught at main.py:217
    event,              \* the event last dispatched to the window
    pc,                 \* position inside mouseReleaseEvent / process_screenshot
    overrideCursor,     \* QApplication's override cursor stack
    calls,              \* calls made on QApplication, AIHelper, QMessageBox, the file, sys
    \* ---- ConfigManager / main (main.py:20-73, 224-233) ----
    environ,            \* os.environ.get("OPENAI_API_KEY")
    key_file,           \* content of openai_api_key.txt, None when absent
    file_before,        \* key_file as it was when initialize_api_key was called
    api_key,            \* local api_key of initialize_api_key
    main_pc,            \* position inside initialize_api_key
    exit_status         \* status passed to sys.exit, None while running

winvars == <<visible, selection_started, start_pos, end_pos, selection_rect,
             image, response_window, e, event, pc, overrideCursor>>
cfgvars == <<environ, key_file, file_before, api_key, main_pc, exit_status>>
vars == <<winvars, calls, cfgvars>>

----------------------------------------------------------------------------
\* Bounds

\* screen coordinates are 0..MaxCoord on both axes
MaxCoord == 3
\* strings (keys, file contents, dialog input) have at most MaxKeyLen characters
MaxKeyLen == 2

----------------------------------------------------------------------------
\* Values

None == [isNone |-> TRUE]
Some(s) == [isNone |-> FALSE, v |-> s]

Coords == 0..MaxCoord
Points == [x : Coords, y : Coords]
Buttons == {"LeftButton", "RightButton"}
Keys == {"Key_Escape", "Key_Other"}

\* " " stands for any whitespace character
Chars == {" ", "a", "b"}
Strings == UNION {[1..n -> Chars] : n \in 0..MaxKeyLen}

----------------------------------------------------------------------------
\* Python and Qt value semantics used by the handlers

\* bool(QPoint): a QPoint is falsy when it is null, i.e. (0, 0); None is falsy
\* (the `self.start_pos and self.end_pos` tests of paintEvent and process_screenshot)
QPointTruthy(p) == p # None /\ ~(p.x = 0 /\ p.y = 0)

\* QRect(topLeft, bottomRight): corners are inclusive
QRect(p1, p2) == [x1 |-> p1.x, y1 |-> p1.y, x2 |-> p2.x, y2 |-> p2.y]
width(r) == r.x2 - r.x1 + 1
height(r) == r.y2 - r.y1 + 1
isEmpty(r) == r.x1 > r.x2 \/ r.y1 > r.y2

\* a normalisation that swaps the x corners only
normalized_x_only(r) ==
    [r EXCEPT !.x1 = IF r.x2 < r.x1 THEN r.x2 + 1 ELSE r.x1,
              !.x2 = IF r.x2 < r.x1 THEN r.x1 - 1 ELSE r.x2]

\* QRect.normalized(), as called on the selection rectangle
normalized(r) ==
    [x1 |-> IF r.x2 < r.x1 THEN r.x2 + 1 ELSE r.x1,
     x2 |-> IF r.x2 < r.x1 THEN r.x1 - 1 ELSE r.x2,
     y1 |-> IF r.y2 < r.y1 THEN r.y2 + 1 ELSE r.y1,
     y2 |-> IF r.y2 < r.y1 THEN r.y1 - 1 ELSE r.y2]

\* the full-screen pixmap grabbed at construction
ScreenRect == [x1 |-> 0, y1 |-> 0, x2 |-> MaxCoord, y2 |-> MaxCoord]

\* QPixmap.copy(rect): an empty rect copies the whole pixmap
copy(r) == IF isEmpty(r) THEN ScreenRect ELSE r

\* QApplication.setOverrideCursor / restoreOverrideCursor on the cursor stack
setOverrideCursor(stack, c) == Append(stack, c)
restoreOverrideCursor(stack) ==
    IF stack = <<>> THEN stack ELSE SubSeq(stack, 1, Len(stack) - 1)
Busy == overrideCursor # <<>> /\ overrideCursor[Len(overrideCursor)] = "WaitCursor"

\* number of calls named c in the call log
Count(c) == Cardinality({i \in 1..Len(calls) : calls[i] = c})
Called(c) == \E i \in 1..Len(calls) : calls[i] = c

----------------------------------------------------------------------------
\* ScreenshotWindow

\* ScreenshotWindow.__init__: window shown full screen, no selection
InitWindow ==
    /\ visible = TRUE
    /\ selection_started = FALSE
    /\ start_pos = None
    /\ end_pos = None
    /\ selection_rect = None
    /\ image = None
    /\ response_window = "none"
    /\ e = "none"
    /\ event = <<"none", "none">>
    /\ pc = "event_loop"
    /\ overrideCursor = <<>>

\* the event loop delivers input to the window only while it is shown and no
\* handler is running
Dispatchable == visible /\ pc = "event_loop"

mousePressEvent(button, pos) ==
    /\ Dispatchable
    /\ event' = <<"mousePress", button>>
    /\ IF button = "LeftButton"
         THEN /\ selection_started' = TRUE
              /\ start_pos' = pos
              /\ end_pos' = pos
         ELSE UNCHANGED <<selection_started, start_pos, end_pos>>
    /\ UNCHANGED <<visible, selection_rect, image, response_window, e, pc,
                   overrideCursor, calls, cfgvars>>

\* mouseMoveEvent, with the paintEvent its self.update() schedules
mouseMoveEvent(pos) ==
    /\ Dispatchable
    /\ event' = <<"mouseMove", "none">>
    /\ IF selection_started
         THEN /\ end_pos' = pos
              /\ selection_rect' =
                    IF QPointTruthy(start_pos) /\ QPointTruthy(pos)
                      THEN normalized(QRect(start_pos, pos))
                      ELSE selection_rect
         ELSE UNCHANGED <<end_pos, selection_rect>>
    /\ UNCHANGED <<visible, selection_started, start_pos, image, response_window,
                   e, pc, overrideCursor, calls, cfgvars>>

\* an Escape handler that forgets to close
keyPressEvent_no_close(key) ==
    /\ Dispatchable
    /\ event' = <<"keyPress", key>>
    /\ UNCHANGED <<visible, selection_started, start_pos, end_pos, selection_rect,
                   image, response_window, e, pc, overrideCursor, calls, cfgvars>>

keyPressEvent(key) ==
    /\ Dispatchable
    /\ event' = <<"keyPress", key>>
    /\ visible' = IF key = "Key_Escape" THEN FALSE ELSE visible
    /\ UNCHANGED <<selection_started, start_pos, end_pos, selection_rect, image,
                   response_window, e, pc, overrideCursor, calls, cfgvars>>

\* mouseReleaseEvent up to its call of process_screenshot
mouseReleaseEvent(button) ==
    /\ Dispatchable
    /\ event' = <<"mouseRelease", button>>
    /\ IF button = "LeftButton" /\ selection_started
         THEN /\ selection_started' = FALSE
              /\ pc' = "process_screenshot"
         ELSE UNCHANGED <<selection_started, pc>>
    /\ UNCHANGED <<visible, start_pos, end_pos, selection_rect, image,
                   response_window, e, overrideCursor, calls, cfgvars>>

\* process_screenshot up to the analysis call: busy cursor, crop, encode
process_screenshot ==
    /\ pc = "process_screenshot"
    /\ IF QPointTruthy(start_pos) /\ QPointTruthy(end_pos)
         THEN /\ overrideCursor' = setOverrideCursor(overrideCursor, "WaitCursor")
              /\ calls' = Append(calls, "setOverrideCursor")
              /\ selection_rect' = normalized(QRect(start_pos, end_pos))
              /\ image' = copy(selection_rect')
              /\ pc' = "analyze_mcq"
         ELSE /\ pc' = "close_170"
              /\ UNCHANGED <<overrideCursor, calls, selection_rect, image>>
    /\ UNCHANGED <<visible, selection_started, start_pos, end_pos, response_window,
                   e, event, cfgvars>>

\* AIHelper.analyze_mcq returns the response text
analyze_mcq_returns ==
    /\ pc = "analyze_mcq"
    /\ calls' = Append(calls, "analyze_mcq")
    /\ pc' = "restore_212"
    /\ UNCHANGED <<visible, selection_started, start_pos, end_pos, selection_rect,
                   image, response_window, e, event, overrideCursor, cfgvars>>

\* a failed analysis that is tried again
analyze_mcq_retries ==
    /\ pc = "analyze_mcq"
    /\ calls' = Append(calls, "analyze_mcq")
    /\ e' = "AI analysis failed"
    /\ UNCHANGED <<visible, selection_started, start_pos, end_pos, selection_rect,
                   image, response_window, event, pc, overrideCursor, cfgvars>>

\* AIHelper.analyze_mcq raises RuntimeError("AI analysis failed: ...")
analyze_mcq_raises ==
    /\ pc = "analyze_mcq"
    /\ calls' = Append(calls, "analyze_mcq")
    /\ e' = "AI analysis failed"
    /\ pc' = "except_218"
    /\ UNCHANGED <<visible, selection_started, start_pos, end_pos, selection_rect,
                   image, response_window, event, overrideCursor, cfgvars>>

\* main.py:212, restoreOverrideCursor after a successful analysis
restore_after_analysis ==
    /\ pc = "restore_212"
    /\ overrideCursor' = restoreOverrideCursor(overrideCursor)
    /\ calls' = Append(calls, "restoreOverrideCursor")
    /\ pc' = "ResponseWindow_214"
    /\ UNCHANGED <<visible, selection_started, start_pos, end_pos, selection_rect,
                   image, response_window, e, event, cfgvars>>

\* main.py:214-215, the result window is built and shown
ResponseWindow_shown ==
    /\ pc = "ResponseWindow_214"
    /\ response_window' = "shown"
    /\ calls' = Append(calls, "ResponseWindow.show")
    /\ pc' = "close_221"
    /\ UNCHANGED <<visible, selection_started, start_pos, end_pos, selection_rect,
                   image, e, event, overrideCursor, cfgvars>>

\* main.py:214-215 raise inside the try block
ResponseWindow_raises ==
    /\ pc = "ResponseWindow_214"
    /\ e' = "ResponseWindow failed"
    /\ pc' = "except_218"
    /\ UNCHANGED <<visible, selection_started, start_pos, end_pos, selection_rect,
                   image, response_window, event, overrideCursor, calls, cfgvars>>

\* an except clause that leaves the busy cursor in place
except_no_restore ==
    /\ pc = "except_218"
    /\ pc' = "critical_219"
    /\ UNCHANGED <<visible, selection_started, start_pos, end_pos, selection_rect,
                   image, response_window, e, event, overrideCursor, calls, cfgvars>>

\* main.py:217-218, the except clause restores the cursor
except_restore ==
    /\ pc = "except_218"
    /\ overrideCursor' = restoreOverrideCursor(overrideCursor)
    /\ calls' = Append(calls, "restoreOverrideCursor")
    /\ pc' = "critical_219"
    /\ UNCHANGED <<visible, selection_started, start_pos, end_pos, selection_rect,
                   image, response_window, e, event, cfgvars>>

\* main.py:219, the blocking error dialog opens
critical_shown ==
    /\ pc = "critical_219"
    /\ calls' = Append(calls, "QMessageBox.critical")
    /\ pc' = "dialog_open"
    /\ UNCHANGED <<visible, selection_started, start_pos, end_pos, selection_rect,
                   image, response_window, e, event, overrideCursor, cfgvars>>

\* the user dismisses the error dialog and QMessageBox.critical returns
critical_dismissed ==
    /\ pc = "dialog_open"
    /\ pc' = "close_221"
    /\ UNCHANGED <<visible, selection_started, start_pos, end_pos, selection_rect,
                   image, response_window, e, event, overrideCursor, calls, cfgvars>>

\* main.py:221, self.close() at the end of process_screenshot
close_in_process_screenshot ==
    /\ pc = "close_221"
    /\ visible' = FALSE
    /\ pc' = "close_170"
    /\ UNCHANGED <<selection_started, start_pos, end_pos, selection_rect, image,
                   response_window, e, event, overrideCursor, calls, cfgvars>>

\* main.py:170, self.close() at the end of mouseReleaseEvent
close_in_mouseReleaseEvent ==
    /\ pc = "close_170"
    /\ visible' = FALSE
    /\ pc' = "event_loop"
    /\ UNCHANGED <<selection_started, start_pos, end_pos, selection_rect, image,
                   response_window, e, event, overrideCursor, calls, cfgvars>>

----------------------------------------------------------------------------
\* ConfigManager

\* Python truthiness of an optional string: None and "" are falsy
Truthy(k) == k # None /\ k.v # <<>>

\* str.strip(): drop leading and trailing whitespace
RECURSIVE lstrip(_), rstrip(_)
lstrip(s) == IF s # <<>> /\ Head(s) = " " THEN lstrip(Tail(s)) ELSE s
rstrip(s) == IF s # <<>> /\ s[Len(s)] = " " THEN rstrip(SubSeq(s, 1, Len(s) - 1)) ELSE s
strip(s) == rstrip(lstrip(s))

\* a loader that looks at the file before the environment
load_api_key_file_first(env, file) ==
    IF file # None THEN Some(strip(file.v))
    ELSE IF Truthy(env) THEN env
    ELSE None

\* ConfigManager.load_api_key: the environment variable when it is truthy,
\* else the stripped file content, else None
load_api_key(env, file) ==
    IF Truthy(env) THEN env
    ELSE IF file # None THEN Some(strip(file.v))
    ELSE None

\* ConfigManager.save_api_key: write_text(api_key) replaces the file content
save_api_key(k) == Some(k)

\* main() has created the QApplication and calls initialize_api_key; no window yet
InitConfig ==
    /\ environ \in {None} \cup {Some(s) : s \in Strings}
    /\ key_file \in {None} \cup {Some(s) : s \in Strings}
    /\ file_before = key_file
    /\ api_key = None
    /\ main_pc = "initialize_api_key"
    /\ exit_status = None

\* main.py:54, api_key = cls.load_api_key()
initialize_load ==
    /\ main_pc = "initialize_api_key"
    /\ api_key' = load_api_key(environ, key_file)
    /\ main_pc' = "loaded"
    /\ UNCHANGED <<winvars, calls, environ, key_file, file_before, exit_status>>

\* main.py:56 and 73, a truthy loaded key is returned as it is
initialize_return_loaded ==
    /\ main_pc = "loaded"
    /\ Truthy(api_key)
    /\ main_pc' = "returned"
    /\ UNCHANGED <<winvars, calls, environ, key_file, file_before, api_key, exit_status>>

\* main.py:56-63, no key: the dialog is accepted with some text
dialog_accepted(text) ==
    /\ main_pc = "loaded"
    /\ ~Truthy(api_key)
    /\ api_key' = Some(text)
    /\ main_pc' = "check_67"
    /\ UNCHANGED <<winvars, calls, environ, key_file, file_before, exit_status>>

\* main.py:56-65, no key: the dialog is cancelled
dialog_rejected ==
    /\ main_pc = "loaded"
    /\ ~Truthy(api_key)
    /\ api_key' = Some(<<>>)
    /\ main_pc' = "check_67"
    /\ UNCHANGED <<winvars, calls, environ, key_file, file_before, exit_status>>

\* a check that saves whatever was entered before testing it
require_key_saves_first ==
    /\ main_pc = "check_67"
    /\ key_file' = save_api_key(api_key.v)
    /\ IF ~Truthy(api_key)
         THEN /\ calls' = calls \o <<"write_text", "QMessageBox.critical">>
              /\ main_pc' = "exit_69"
         ELSE /\ calls' = Append(calls, "write_text")
              /\ main_pc' = "returned"
    /\ UNCHANGED <<winvars, environ, file_before, api_key, exit_status>>

\* main.py:67-73, an empty key shows the error dialog, any other is saved and returned
require_key ==
    /\ main_pc = "check_67"
    /\ IF ~Truthy(api_key)
         THEN /\ calls' = Append(calls, "QMessageBox.critical")
              /\ main_pc' = "exit_69"
              /\ UNCHANGED key_file
         ELSE /\ key_file' = save_api_key(api_key.v)
              /\ calls' = Append(calls, "write_text")
              /\ main_pc' = "returned"
    /\ UNCHANGED <<winvars, environ, file_before, api_key, exit_status>>

\* main.py:69, sys.exit(1)
sys_exit ==
    /\ main_pc = "exit_69"
    /\ exit_status' = Some(1)
    /\ calls' = Append(calls, "sys.exit")
    /\ main_pc' = "exited"
    /\ UNCHANGED <<winvars, environ, key_file, file_before, api_key>>

----------------------------------------------------------------------------
\* Specifications

\* the window as main() shows it: initialize_api_key has returned a stored key
Init ==
    /\ InitWindow
    /\ calls = <<>>
    /\ environ = None
    /\ key_file = Some(<<"a">>)
    /\ file_before = key_file
    /\ api_key = Some(<<"a">>)
    /\ main_pc = "returned"
    /\ exit_status = None

Next ==
    \/ \E b \in Buttons, p \in Points : mousePressEvent(b, p)
    \/ \E p \in Points : mouseMoveEvent(p)
    \/ \E b \in Buttons : mouseReleaseEvent(b)
    \/ \E k \in Keys : keyPressEvent(k)
    \/ process_screenshot
    \/ analyze_mcq_returns
    \/ analyze_mcq_raises
    \/ restore_after_analysis
    \/ ResponseWindow_shown
    \/ ResponseWindow_raises
    \/ except_restore
    \/ critical_shown
    \/ critical_dismissed
    \/ close_in_process_screenshot
    \/ close_in_mouseReleaseEvent

Spec == Init /\ [][Next]_vars

\* initialize_api_key before any window exists
InitBeforeWindow ==
    /\ InitConfig
    /\ calls = <<>>
    /\ visible = FALSE
    /\ selection_started = FALSE
    /\ start_pos = None
    /\ end_pos = None
    /\ selection_rect = None
    /\ image = None
    /\ response_window = "none"
    /\ e = "none"
    /\ event = <<"none", "none">>
    /\ pc = "not_constructed"
    /\ overrideCursor = <<>>

NextConfig ==
    \/ initialize_load
    \/ initialize_return_loaded
    \/ \E text \in Strings : dialog_accepted(text)
    \/ dialog_rejected
    \/ require_key
    \/ sys_exit

SpecConfig == InitBeforeWindow /\ [][NextConfig]_vars

----------------------------------------------------------------------------
\* Properties of the ScreenshotWindow (checked under Spec)

\* a primary-button release has ended a drag: its handler has started or finished
ReleaseEndedDrag ==
    /\ event = <<"mouseRelease", "LeftButton">>
    /\ ~selection_started
    /\ start_pos # None

\* the handler of that release has finished
ReleaseHandled == ReleaseEndedDrag /\ pc = "event_loop"

\* the selection has zero area: no pointer movement between press and release,
\* or a normalized rectangle of zero width or zero height
ZeroArea ==
    \/ start_pos = end_pos
    \/ width(normalized(QRect(start_pos, end_pos))) = 0
    \/ height(normalized(QRect(start_pos, end_pos))) = 0

\* C1: a primary-button release whose selection rectangle has zero area never
\* causes AIHelper.analyze_mcq to be called.
C1_ZeroAreaReleaseNeverAnalyzes ==
    (ReleaseEndedDrag /\ ZeroArea) => ~Called("analyze_mcq")

\* C2: after Escape is pressed in the idle or dragging state the window is
\* closed, analyze_mcq has not been called (and, no handler running and no
\* event deliverable, never is), and the override cursor is not busy.
C2_EscapeClosesWithoutAnalysis ==
    event = <<"keyPress", "Key_Escape">> =>
        /\ ~visible
        /\ pc = "event_loop"
        /\ ~Called("analyze_mcq")
        /\ ~Busy

\* Escape was pressed while dragging, after the pointer had moved
C2_Witness ==
    /\ event = <<"keyPress", "Key_Escape">>
    /\ selection_started
    /\ start_pos # end_pos

\* every error dialog in the call log comes after a cursor restore
RestoreBeforeCritical ==
    \A j \in 1..Len(calls) :
        calls[j] = "QMessageBox.critical" =>
            \E i \in 1..(j - 1) : calls[i] = "restoreOverrideCursor"

\* C3: when analyze_mcq raises, the busy cursor is restored before the error
\* dialog is shown, no ResponseWindow is created, and the window ends closed
\* with the error dialog having been shown.
C3_FailureRestoresThenReports ==
    e = "AI analysis failed" =>
        /\ response_window = "none"
        /\ ~Called("ResponseWindow.show")
        /\ Called("QMessageBox.critical") => (RestoreBeforeCritical /\ ~Busy)
        /\ pc = "event_loop" => (~visible /\ Called("QMessageBox.critical"))

\* the release handler has finished after a failed analysis
C3_Witness ==
    /\ e = "AI analysis failed"
    /\ pc = "event_loop"
    /\ ~visible
    /\ Called("QMessageBox.critical")

\* C6: a primary-button release that ends a drag with a non-null selection
\* rectangle, whatever the anchor and end points, invokes the analysis call and
\* leaves the window closed with either the result window or the error dialog
\* shown.
C6_ReleaseAlwaysAnalyzesAndCloses ==
    (/\ ReleaseHandled
     /\ end_pos # None
     /\ start_pos # end_pos
     /\ ~isEmpty(normalized(QRect(start_pos, end_pos)))) =>
        /\ ~visible
        /\ Called("analyze_mcq")
        /\ response_window = "shown" \/ Called("QMessageBox.critical")

\* C8: for any drag with start different from end, the normalized selection
\* rectangle has width >= 0 and height >= 0, as does every rectangle the
\* window has painted or cropped.
C8_NormalizedNonNegative ==
    /\ (start_pos # None /\ end_pos # None /\ start_pos # end_pos) =>
          /\ width(normalized(QRect(start_pos, end_pos))) >= 0
          /\ height(normalized(QRect(start_pos, end_pos))) >= 0
    /\ selection_rect # None =>
          (width(selection_rect) >= 0 /\ height(selection_rect) >= 0)

\* an up-left drag (negative raw width and height) that has been painted
C8_Witness ==
    /\ start_pos # None
    /\ end_pos # None
    /\ width(QRect(start_pos, end_pos)) < 0
    /\ height(QRect(start_pos, end_pos)) < 0
    /\ selection_rect = normalized(QRect(start_pos, end_pos))

\* C9: over the lifetime of the window at most one analysis request is issued
\* and at most one result is displayed, whatever the events and the outcome.
C9_AtMostOneAnalysis ==
    /\ Count("analyze_mcq") <= 1
    /\ Count("ResponseWindow.show") <= 1
    /\ Count("ResponseWindow.show") + Count("QMessageBox.critical") <= 1

\* the window is closed after its one analysis request failed
C9_Witness ==
    /\ Count("analyze_mcq") = 1
    /\ e = "AI analysis failed"
    /\ pc = "event_loop"
    /\ ~visible

\* C10: in every state after process_screenshot has returned, the override
\* cursor is not busy and each set of the busy cursor is matched by exactly one
\* restore.
C10_CursorSetMatchedByOneRestore ==
    (pc \in {"close_170", "event_loop"} /\ Called("setOverrideCursor")) =>
        /\ ~Busy
        /\ Count("restoreOverrideCursor") = Count("setOverrideCursor")

----------------------------------------------------------------------------
\* Properties of ConfigManager (checked under SpecConfig)

\* C4: whenever both the environment variable and the credential file are
\* present, load_api_key returns the environment variable's value.
C4_EnvironmentAlwaysWins ==
    (main_pc = "loaded" /\ environ # None /\ key_file # None) =>
        api_key = environ

\* C4, amended: whenever the environment variable is present with a non-empty
\* value and the credential file is present, load_api_key returns the
\* environment variable's value.
C4_NonEmptyEnvironmentWins ==
    (main_pc = "loaded" /\ Truthy(environ) /\ key_file # None) =>
        api_key = environ

\* both sources hold a key, and the keys differ
C4_Witness ==
    /\ main_pc = "loaded"
    /\ Truthy(environ)
    /\ key_file # None
    /\ strip(key_file.v) # <<>>
    /\ strip(key_file.v) # environ.v

\* the error dialog comes before sys.exit in the call log
CriticalBeforeExit ==
    \A j \in 1..Len(calls) :
        calls[j] = "sys.exit" =>
            \E i \in 1..(j - 1) : calls[i] = "QMessageBox.critical"

\* C5: when no key is loaded and the prompt is cancelled or left empty,
\* initialize_api_key shows the error dialog and exits with status 1, never
\* returns, and leaves the credential file as it was.
C5_EmptyEntryExitsWithoutWriting ==
    /\ (main_pc = "check_67" /\ ~Truthy(api_key)) => key_file = file_before
    /\ main_pc \in {"exit_69", "exited"} =>
          /\ ~Truthy(api_key)
          /\ Called("QMessageBox.critical")
          /\ ~Called("write_text")
          /\ key_file = file_before
    /\ main_pc = "exited" => (exit_status = Some(1) /\ CriticalBeforeExit)
    /\ main_pc = "returned" => Truthy(api_key)

\* the process has exited although a (whitespace-only) credential file exists
C5_Witness ==
    /\ main_pc = "exited"
    /\ exit_status = Some(1)
    /\ key_file # None

\* C7: once initialize_api_key has written the credential file, its content
\* is the trimmed key, and load_api_key with no environment variable returns
\* the key initialize_api_key returned.
C7_FileHoldsTrimmedKey ==
    (main_pc = "returned" /\ Called("write_text")) =>
        /\ key_file # None
        /\ key_file.v = strip(key_file.v)
        /\ load_api_key(None, key_file) = api_key

====
